---- MODULE Spec2Model ----
(***************************************************************************)
(* Model of the publish pipeline of src/commands/publish/mod.rs:           *)
(* publish validates the target, optionally binds the static-site KV       *)
(* namespace, syncs the buckets, uploads the script and exposes it on a    *)
(* route or on the account's workers.dev subdomain.                        *)
(*                                                                         *)
(* One run of publish is one behaviour.  The run is cut at the calls whose *)
(* result the function does not control (collaborators, HTTP, filesystem); *)
(* the result of each such call is drawn with \E.  `calls` records, in     *)
(* program order, every step the run has executed.                         *)
(***************************************************************************)
EXTENDS Integers, Sequences, FiniteSets, TLC

VARIABLES target, pc, i, calls, form, route, subdomain, pattern,
          outcome, error, messages,
          descriptor   \* the target as it was handed to publish

vars == <<target, pc, i, calls, form, route, subdomain, pattern,
          outcome, error, messages, descriptor>>

-----------------------------------------------------------------------------
(* Bounds of the model *)

MaxBindings == 2

-----------------------------------------------------------------------------
(* Option<T>: None is the empty sequence, Some(x) the one-element sequence *)

None == <<>>

Some(x) == <<x>>

IsSome(o) == Len(o) = 1

IsNone(o) == Len(o) = 0

Unwrap(o) == o[1]

UnwrapOr(o, d) == IF IsSome(o) THEN o[1] ELSE d

(* String::is_empty *)
is_empty(s) == s = ""

SeqsUpTo(S, n) == UNION {[1..k -> S] : k \in 0..n}

-----------------------------------------------------------------------------
(* The inputs: targets, the local filesystem, the collaborators' answers *)

Buckets == {None, Some(""), Some("missing"), Some("file.txt"), Some("dir")}

(* A binding of the descriptor: every combination of empty / non-empty     *)
(* binding name and namespace id, and every kind of bucket path on the     *)
(* bindings that pass validation.                                          *)
KvNamespaces ==
    {[binding |-> b, id |-> n, bucket |-> None] : b \in {"", "KV"}, n \in {"", "ns1"}}
    \cup {[binding |-> "KV", id |-> "ns1", bucket |-> k] : k \in Buckets}

Sites == {[bucket |-> "public"], [bucket |-> ""]}

Targets ==
    [account_id : {"", "A"},
     name : {"", "S"},
     zone_id : {None, Some(""), Some("Z")},
     route : {None, Some(""), Some("example.com/*")},
     workers_dev : BOOLEAN,
     kv_namespaces : {None} \cup {Some(v) : v \in SeqsUpTo(KvNamespaces, MaxBindings)},
     site : {None} \cup {Some(s) : s \in Sites}]

(* The local filesystem seen by Path::exists and Path::is_dir *)
PathKind(p) ==
    CASE p = "dir" -> "dir"
      [] p = "public" -> "dir"
      [] p = "file.txt" -> "file"
      [] OTHER -> "absent"

path_exists(p) == PathKind(p) # "absent"

path_is_dir(p) == PathKind(p) = "dir"

(* kv::namespace::site: an error, or a namespace with the id the platform  *)
(* assigned                                                                *)
SiteNamespaceResults ==
    {[ok |-> FALSE, id |-> ""], [ok |-> TRUE, id |-> ""], [ok |-> TRUE, id |-> "site-ns"]}

(* RequestBuilder::send: a transport error, or a response with its status  *)
(* and body                                                                *)
SendResults ==
    {[sent |-> FALSE, status |-> 0, body |-> ""],
     [sent |-> TRUE, status |-> 200, body |-> "{\"success\":true}"],
     [sent |-> TRUE, status |-> 404, body |-> "not found"],
     [sent |-> TRUE, status |-> 500, body |-> "internal error"]}

(* Subdomain::get: an error (no subdomain registered), or its name *)
SubdomainResults ==
    {[ok |-> FALSE, name |-> ""], [ok |-> TRUE, name |-> "foo"], [ok |-> TRUE, name |-> "bar"]}

-----------------------------------------------------------------------------
(* Records of the run *)

(* A step of the run: the operation, whether it let the run go on, and its *)
(* arguments; for an HTTP request, the status and body of the response     *)
(* (status 0: no response).                                                *)
Call(op, ok, a, b) ==
    [op |-> op, ok |-> ok, a |-> a, b |-> b, status |-> 0, body |-> ""]

HttpCall(op, ok, a, b, res) ==
    [op |-> op, ok |-> ok, a |-> a, b |-> b, status |-> res.status, body |-> res.body]

NoError ==
    [kind |-> "", status |-> 0, body |-> "", pluralization |-> "", is_are |-> "",
     missing_fields |-> <<>>, destination |-> "", path |-> ""]

(* failure::bail!: the run ends with the error, nothing else changes *)
Bail(e) ==
    /\ outcome' = "err"
    /\ error' = e
    /\ pc' = "done"

Continue(next) ==
    /\ pc' = next
    /\ UNCHANGED <<descriptor, outcome, error>>

-----------------------------------------------------------------------------
(* Target::kv_namespaces and Target::add_kv_namespace *)

kv_namespaces(t) == UnwrapOr(t.kv_namespaces, <<>>)

add_kv_namespace(t, kv) ==
    [t EXCEPT !.kv_namespaces = Some(Append(kv_namespaces(t), kv))]

-----------------------------------------------------------------------------
(* validate_target_required_fields_present *)

RECURSIVE kv_missing_fields(_)
kv_missing_fields(kvs) ==
    IF kvs = <<>> THEN <<>>
    ELSE (IF is_empty(Head(kvs).binding) THEN <<"kv-namespace binding">> ELSE <<>>)
         \o (IF is_empty(Head(kvs).id) THEN <<"kv-namespace id">> ELSE <<>>)
         \o kv_missing_fields(Tail(kvs))

(* Variant: the route is not required *)
release_missing_fields_zone_only(t) ==
    IF ~t.workers_dev
    THEN (IF is_empty(UnwrapOr(t.zone_id, "")) THEN <<"zone_id">> ELSE <<>>)
    ELSE <<>>

(* Variant: route pushed before zone_id *)
release_missing_fields_route_first(t) ==
    IF ~t.workers_dev
    THEN (IF is_empty(UnwrapOr(t.route, "")) THEN <<"route">> ELSE <<>>)
         \o (IF is_empty(UnwrapOr(t.zone_id, "")) THEN <<"zone_id">> ELSE <<>>)
    ELSE <<>>

(* Variant: zone_id and route required whatever the mode *)
release_missing_fields_any_mode(t) ==
    (IF is_empty(UnwrapOr(t.zone_id, "")) THEN <<"zone_id">> ELSE <<>>)
    \o (IF is_empty(UnwrapOr(t.route, "")) THEN <<"route">> ELSE <<>>)

release_missing_fields(t) ==
    IF ~t.workers_dev
    THEN (IF is_empty(UnwrapOr(t.zone_id, "")) THEN <<"zone_id">> ELSE <<>>)
         \o (IF is_empty(UnwrapOr(t.route, "")) THEN <<"route">> ELSE <<>>)
    ELSE <<>>

destination(t) == IF ~t.workers_dev THEN "a route" ELSE "your subdomain"

(* Variant: validation stops at the first violation *)
missing_fields_first_only(t) ==
    SubSeq((IF is_empty(t.account_id) THEN <<"account_id">> ELSE <<>>)
           \o (IF is_empty(t.name) THEN <<"name">> ELSE <<>>)
           \o (IF IsSome(t.kv_namespaces) THEN kv_missing_fields(Unwrap(t.kv_namespaces)) ELSE <<>>)
           \o release_missing_fields(t), 1, 1)

missing_fields(t) ==
    (IF is_empty(t.account_id) THEN <<"account_id">> ELSE <<>>)
    \o (IF is_empty(t.name) THEN <<"name">> ELSE <<>>)
    \o (IF IsSome(t.kv_namespaces) THEN kv_missing_fields(Unwrap(t.kv_namespaces)) ELSE <<>>)
    \o release_missing_fields(t)

(* Variant: the plural starts at three *)
pluralization_from_three(n) ==
    IF n > 2 THEN <<"fields", "are">>
    ELSE IF n >= 1 THEN <<"field", "is">>
    ELSE <<"", "">>

pluralization(n) ==
    IF n >= 2 THEN <<"fields", "are">>
    ELSE IF n = 1 THEN <<"field", "is">>
    ELSE <<"", "">>

MissingFieldsError(t) ==
    [NoError EXCEPT !.kind = "MissingFields",
                    !.pluralization = pluralization(Len(missing_fields(t)))[1],
                    !.missing_fields = missing_fields(t),
                    !.is_are = pluralization(Len(missing_fields(t)))[2],
                    !.destination = destination(t)]

(* Variant: the result of the validation is dropped *)
validate_target_required_fields_present_ignored ==
    /\ pc = "validate"
    /\ calls' = Append(calls, Call("validate_target_required_fields_present",
                                   missing_fields(target) = <<>>, "", ""))
    /\ Continue("validate_worker_name")
    /\ UNCHANGED <<descriptor, target, i, form, route, subdomain, pattern, messages>>

validate_target_required_fields_present ==
    /\ pc = "validate"
    /\ calls' = Append(calls, Call("validate_target_required_fields_present",
                                   missing_fields(target) = <<>>, "", ""))
    /\ IF missing_fields(target) # <<>>
       THEN Bail(MissingFieldsError(target))
       ELSE Continue("validate_worker_name")
    /\ UNCHANGED <<descriptor, target, i, form, route, subdomain, pattern, messages>>

-----------------------------------------------------------------------------
(* upload_buckets: the loop visits the bindings in order and acts on those *)
(* that declare a bucket; next_bucket is the next such binding from j on,  *)
(* Len(kvs) + 1 when there is none.                                        *)

RECURSIVE next_bucket(_, _)
next_bucket(kvs, j) ==
    IF j > Len(kvs) THEN Len(kvs) + 1
    ELSE IF IsSome(kvs[j].bucket) THEN j
    ELSE next_bucket(kvs, j + 1)

(* Enter, or go on with, the loop of upload_buckets over the bindings of t *)
(* from index j; when the loop is over, upload_buckets returns Ok and      *)
(* publish calls build_and_publish_script.                                 *)
EnterBuckets(t, j) ==
    /\ i' = next_bucket(kv_namespaces(t), j)
    /\ Continue(IF next_bucket(kv_namespaces(t), j) > Len(kv_namespaces(t))
                THEN "build_form" ELSE "upload_buckets")

-----------------------------------------------------------------------------
(* publish, line 29: validate_worker_name, then the site branch *)

(* Variant: a missing site config is replaced by the default one *)
validate_worker_name_site_defaulted ==
    /\ pc = "validate_worker_name"
    /\ \E ok \in BOOLEAN :
        /\ calls' = Append(calls, Call("validate_worker_name", ok, target.name, ""))
        /\ IF ~ok
           THEN Bail([NoError EXCEPT !.kind = "InvalidWorkerName"]) /\ UNCHANGED target
           ELSE /\ target' = [target EXCEPT !.site = Some([bucket |-> UnwrapOr(target.site, [bucket |-> ""]).bucket])]
                /\ Continue("bind_static_site_contents")
    /\ UNCHANGED <<descriptor, i, form, route, subdomain, pattern, messages>>

(* Variant: the result of validate_worker_name is dropped *)
validate_worker_name_ignored ==
    /\ pc = "validate_worker_name"
    /\ \E ok \in BOOLEAN :
        /\ calls' = Append(calls, Call("validate_worker_name", ok, target.name, ""))
        /\ IF IsSome(target.site)
           THEN Continue("bind_static_site_contents") /\ UNCHANGED i
           ELSE EnterBuckets(target, 1)
    /\ UNCHANGED <<descriptor, target, form, route, subdomain, pattern, messages>>

validate_worker_name ==
    /\ pc = "validate_worker_name"
    /\ \E ok \in BOOLEAN :
        /\ calls' = Append(calls, Call("validate_worker_name", ok, target.name, ""))
        /\ IF ~ok
           THEN Bail([NoError EXCEPT !.kind = "InvalidWorkerName"]) /\ UNCHANGED i
           ELSE IF IsSome(target.site)
                THEN Continue("bind_static_site_contents") /\ UNCHANGED i
                ELSE EnterBuckets(target, 1)
    /\ UNCHANGED <<descriptor, target, form, route, subdomain, pattern, messages>>

-----------------------------------------------------------------------------
(* bind_static_site_contents *)

(* Variant: the bucket of the site config is left out *)
site_kv_namespace_no_bucket(site_config, id) ==
    [binding |-> "__STATIC_CONTENT", id |-> id, bucket |-> None]

site_kv_namespace(site_config, id) ==
    [binding |-> "__STATIC_CONTENT", id |-> id, bucket |-> Some(site_config.bucket)]

bind_static_site_contents ==
    /\ pc = "bind_static_site_contents"
    /\ \E site_namespace \in SiteNamespaceResults :
        /\ calls' = Append(calls, [Call("kv::namespace::site", site_namespace.ok,
                                        target.account_id, target.name)
                                      EXCEPT !.body = site_namespace.id])
        /\ IF ~site_namespace.ok
           THEN /\ Bail([NoError EXCEPT !.kind = "SiteNamespace"])
                /\ UNCHANGED <<target, i>>
           ELSE /\ target' = add_kv_namespace(target,
                                site_kv_namespace(Unwrap(target.site), site_namespace.id))
                /\ EnterBuckets(target', 1)
    /\ UNCHANGED <<descriptor, form, route, subdomain, pattern, messages>>

-----------------------------------------------------------------------------
(* upload_buckets: one binding with a bucket *)

(* The checks made on the bucket path before the sync, in program order,   *)
(* up to and including the first that fails.                               *)
bucket_checks(id, bucket) ==
    IF is_empty(bucket) THEN <<Call("bucket.is_empty", FALSE, id, bucket)>>
    ELSE IF ~path_exists(bucket)
         THEN <<Call("bucket.is_empty", TRUE, id, bucket),
                Call("path.exists", FALSE, id, bucket)>>
    ELSE IF ~path_is_dir(bucket)
         THEN <<Call("bucket.is_empty", TRUE, id, bucket),
                Call("path.exists", TRUE, id, bucket),
                Call("path.is_dir", FALSE, id, bucket)>>
    ELSE <<Call("bucket.is_empty", TRUE, id, bucket),
           Call("path.exists", TRUE, id, bucket),
           Call("path.is_dir", TRUE, id, bucket)>>

(* Variant: no test for the empty path *)
bucket_error_no_empty_test(bucket) ==
    IF ~path_exists(bucket)
    THEN [NoError EXCEPT !.kind = "BucketDoesNotExist", !.path = bucket]
    ELSE IF ~path_is_dir(bucket)
         THEN [NoError EXCEPT !.kind = "BucketNotADirectory", !.path = bucket]
    ELSE NoError

(* Variant: is_dir tested before exists *)
bucket_error_is_dir_first(bucket) ==
    IF is_empty(bucket) THEN [NoError EXCEPT !.kind = "BucketNotSpecified"]
    ELSE IF ~path_is_dir(bucket)
         THEN [NoError EXCEPT !.kind = "BucketNotADirectory", !.path = bucket]
    ELSE IF ~path_exists(bucket)
         THEN [NoError EXCEPT !.kind = "BucketDoesNotExist", !.path = bucket]
    ELSE NoError

bucket_error(bucket) ==
    IF is_empty(bucket) THEN [NoError EXCEPT !.kind = "BucketNotSpecified"]
    ELSE IF ~path_exists(bucket)
         THEN [NoError EXCEPT !.kind = "BucketDoesNotExist", !.path = bucket]
    ELSE IF ~path_is_dir(bucket)
         THEN [NoError EXCEPT !.kind = "BucketNotADirectory", !.path = bucket]
    ELSE NoError

(* Variant: every bucket is synced into the namespace of the first binding *)
upload_buckets_first_id ==
    /\ pc = "upload_buckets"
    /\ LET namespace == kv_namespaces(target)[i]
           bucket == Unwrap(namespace.bucket)
       IN IF bucket_error(bucket) # NoError
          THEN /\ calls' = calls \o bucket_checks(namespace.id, bucket)
               /\ Bail(bucket_error(bucket))
               /\ UNCHANGED i
          ELSE \E ok \in BOOLEAN :
               /\ calls' = calls \o bucket_checks(namespace.id, bucket)
                                 \o <<Call("kv::bucket::sync", ok,
                                           kv_namespaces(target)[1].id, bucket)>>
               /\ IF ~ok
                  THEN Bail([NoError EXCEPT !.kind = "BucketSync"]) /\ UNCHANGED i
                  ELSE EnterBuckets(target, i + 1)
    /\ UNCHANGED <<descriptor, target, form, route, subdomain, pattern, messages>>

upload_buckets ==
    /\ pc = "upload_buckets"
    /\ LET namespace == kv_namespaces(target)[i]
           bucket == Unwrap(namespace.bucket)
       IN IF bucket_error(bucket) # NoError
          THEN /\ calls' = calls \o bucket_checks(namespace.id, bucket)
               /\ Bail(bucket_error(bucket))
               /\ UNCHANGED i
          ELSE \E ok \in BOOLEAN :
               /\ calls' = calls \o bucket_checks(namespace.id, bucket)
                                 \o <<Call("kv::bucket::sync", ok, namespace.id, bucket)>>
               /\ IF ~ok
                  THEN Bail([NoError EXCEPT !.kind = "BucketSync"]) /\ UNCHANGED i
                  ELSE EnterBuckets(target, i + 1)
    /\ UNCHANGED <<descriptor, target, form, route, subdomain, pattern, messages>>

-----------------------------------------------------------------------------
(* build_and_publish_script *)

worker_addr(t) ==
    "https://api.cloudflare.com/client/v4/accounts/" \o t.account_id
        \o "/workers/scripts/" \o t.name

(* Variant: only server errors count as failures *)
is_success_below_500(status) == status >= 200 /\ status < 500

(* StatusCode::is_success: 200..=299 *)
is_success(status) == status >= 200 /\ status <= 299

StatusError(res) ==
    [NoError EXCEPT !.kind = "Status", !.status = res.status, !.body = res.body]

(* The metadata of the upload form: the bindings of the target, binding    *)
(* name and namespace id, in order.                                        *)
build_script_and_upload_form(t) ==
    [bindings |-> [k \in 1..Len(kv_namespaces(t)) |->
                      [name |-> kv_namespaces(t)[k].binding,
                       namespace_id |-> kv_namespaces(t)[k].id]]]

(* Variant: the form is built from the target as it was before the site    *)
(* binding was added                                                       *)
build_and_publish_script_form_before_site ==
    /\ pc = "build_form"
    /\ \E ok \in BOOLEAN :
        /\ calls' = Append(calls, Call("build_script_and_upload_form", ok, "", ""))
        /\ IF ~ok
           THEN Bail([NoError EXCEPT !.kind = "UploadForm"]) /\ UNCHANGED form
           ELSE /\ form' = Some(build_script_and_upload_form(descriptor))
                /\ Continue("put")
    /\ UNCHANGED <<descriptor, target, i, route, subdomain, pattern, messages>>

build_and_publish_script_form ==
    /\ pc = "build_form"
    /\ \E ok \in BOOLEAN :
        /\ calls' = Append(calls, Call("build_script_and_upload_form", ok, "", ""))
        /\ IF ~ok
           THEN Bail([NoError EXCEPT !.kind = "UploadForm"]) /\ UNCHANGED form
           ELSE /\ form' = Some(build_script_and_upload_form(target))
                /\ Continue("put")
    /\ UNCHANGED <<descriptor, target, i, route, subdomain, pattern, messages>>

(* Variant: the test on workers_dev is inverted *)
build_and_publish_script_put_inverted ==
    /\ pc = "put"
    /\ \E res \in SendResults :
        /\ calls' = Append(calls, HttpCall("PUT", res.sent /\ is_success(res.status),
                                           worker_addr(target), "", res))
        /\ IF ~res.sent
           THEN Bail([NoError EXCEPT !.kind = "Transport"])
           ELSE IF ~is_success(res.status)
                THEN Bail(StatusError(res))
                ELSE IF target.workers_dev
                     THEN Continue("route_new")
                     ELSE Continue("publish_to_subdomain")
    /\ UNCHANGED <<descriptor, target, i, form, route, subdomain, pattern, messages>>

build_and_publish_script_put ==
    /\ pc = "put"
    /\ \E res \in SendResults :
        /\ calls' = Append(calls, HttpCall("PUT", res.sent /\ is_success(res.status),
                                           worker_addr(target), "", res))
        /\ IF ~res.sent
           THEN Bail([NoError EXCEPT !.kind = "Transport"])
           ELSE IF ~is_success(res.status)
                THEN Bail(StatusError(res))
                ELSE IF ~target.workers_dev
                     THEN Continue("route_new")
                     ELSE Continue("publish_to_subdomain")
    /\ UNCHANGED <<descriptor, target, i, form, route, subdomain, pattern, messages>>

(* Route::new: a route for the script with the target's route pattern *)
RouteNew(t) == [script |-> Some(t.name), pattern |-> UnwrapOr(t.route, "")]

build_and_publish_script_route_new ==
    /\ pc = "route_new"
    /\ \E ok \in BOOLEAN :
        /\ calls' = Append(calls, Call("Route::new", ok, UnwrapOr(target.zone_id, ""),
                                       UnwrapOr(target.route, "")))
        /\ IF ~ok
           THEN Bail([NoError EXCEPT !.kind = "Route"]) /\ UNCHANGED route
           ELSE /\ route' = Some(RouteNew(target))
                /\ Continue("route_publish")
    /\ UNCHANGED <<descriptor, target, i, form, subdomain, pattern, messages>>

(* Variant: the error of Route::publish is swallowed *)
build_and_publish_script_route_publish_swallowed ==
    /\ pc = "route_publish"
    /\ \E ok \in BOOLEAN :
        /\ calls' = Append(calls, Call("Route::publish", ok, UnwrapOr(target.zone_id, ""),
                                       Unwrap(route).pattern))
        /\ pattern' = Some(Unwrap(route).pattern)
        /\ Continue("report")
    /\ UNCHANGED <<descriptor, target, i, form, route, subdomain, messages>>

(* Variant: the zone is reported instead of the route pattern *)
build_and_publish_script_route_publish_zone ==
    /\ pc = "route_publish"
    /\ \E ok \in BOOLEAN :
        /\ calls' = Append(calls, Call("Route::publish", ok, UnwrapOr(target.zone_id, ""),
                                       Unwrap(route).pattern))
        /\ IF ~ok
           THEN Bail([NoError EXCEPT !.kind = "RoutePublish"]) /\ UNCHANGED pattern
           ELSE /\ pattern' = Some(UnwrapOr(target.zone_id, ""))
                /\ Continue("report")
    /\ UNCHANGED <<descriptor, target, i, form, route, subdomain, messages>>

build_and_publish_script_route_publish ==
    /\ pc = "route_publish"
    /\ \E ok \in BOOLEAN :
        /\ calls' = Append(calls, Call("Route::publish", ok, UnwrapOr(target.zone_id, ""),
                                       Unwrap(route).pattern))
        /\ IF ~ok
           THEN Bail([NoError EXCEPT !.kind = "RoutePublish"]) /\ UNCHANGED pattern
           ELSE /\ pattern' = Some(Unwrap(route).pattern)
                /\ Continue("report")
    /\ UNCHANGED <<descriptor, target, i, form, route, subdomain, messages>>

success_message(p) == "Successfully published your script to " \o p

build_and_publish_script_report ==
    /\ pc = "report"
    /\ calls' = Append(calls, Call("message::success", TRUE, success_message(Unwrap(pattern)), ""))
    /\ messages' = Append(messages, success_message(Unwrap(pattern)))
    /\ outcome' = "ok"
    /\ pc' = "done"
    /\ UNCHANGED <<descriptor, target, i, form, route, subdomain, pattern, error>>

-----------------------------------------------------------------------------
(* publish_to_subdomain *)

build_subdomain_request == "{\"enabled\":true}"

sd_worker_addr(t) ==
    "https://api.cloudflare.com/client/v4/accounts/" \o t.account_id
        \o "/workers/scripts/" \o t.name \o "/subdomain"

(* Variant: the arguments of the format are exchanged *)
subdomain_pattern_swapped(name, sd) == "https://" \o sd \o "." \o name \o ".workers.dev"

subdomain_pattern(name, sd) == "https://" \o name \o "." \o sd \o ".workers.dev"

(* Variant: a failed lookup is replaced by the empty name *)
publish_to_subdomain_get_unchecked ==
    /\ pc = "publish_to_subdomain"
    /\ \E res \in SubdomainResults :
        /\ calls' = Append(calls, Call("Subdomain::get", res.ok, target.account_id, res.name))
        /\ subdomain' = Some(res.name)
        /\ Continue("subdomain_post")
    /\ UNCHANGED <<descriptor, target, i, form, route, pattern, messages>>

publish_to_subdomain_get ==
    /\ pc = "publish_to_subdomain"
    /\ \E res \in SubdomainResults :
        /\ calls' = Append(calls, Call("Subdomain::get", res.ok, target.account_id, res.name))
        /\ IF ~res.ok
           THEN Bail([NoError EXCEPT !.kind = "Subdomain"]) /\ UNCHANGED subdomain
           ELSE /\ subdomain' = Some(res.name)
                /\ Continue("subdomain_post")
    /\ UNCHANGED <<descriptor, target, i, form, route, pattern, messages>>

publish_to_subdomain_post ==
    /\ pc = "subdomain_post"
    /\ \E res \in SendResults :
        /\ calls' = Append(calls, HttpCall("POST", res.sent /\ is_success(res.status),
                                           sd_worker_addr(target), build_subdomain_request, res))
        /\ IF ~res.sent
           THEN Bail([NoError EXCEPT !.kind = "Transport"]) /\ UNCHANGED pattern
           ELSE IF ~is_success(res.status)
                THEN Bail(StatusError(res)) /\ UNCHANGED pattern
                ELSE /\ pattern' = Some(subdomain_pattern(target.name, Unwrap(subdomain)))
                     /\ Continue("report")
    /\ UNCHANGED <<descriptor, target, i, form, route, subdomain, messages>>

-----------------------------------------------------------------------------

Init ==
    /\ target \in Targets
    /\ descriptor = target
    /\ pc = "validate"
    /\ i = 1
    /\ calls = <<>>
    /\ form = None
    /\ route = None
    /\ subdomain = None
    /\ pattern = None
    /\ outcome = "running"
    /\ error = NoError
    /\ messages = <<>>

Next ==
    \/ validate_target_required_fields_present
    \/ validate_worker_name
    \/ bind_static_site_contents
    \/ upload_buckets
    \/ build_and_publish_script_form
    \/ build_and_publish_script_put
    \/ build_and_publish_script_route_new
    \/ build_and_publish_script_route_publish
    \/ build_and_publish_script_report
    \/ publish_to_subdomain_get
    \/ publish_to_subdomain_post

Spec == Init /\ [][Next]_vars

-----------------------------------------------------------------------------
(* Vocabulary of the properties *)

NumCalls == Len(calls)

Ops(S) == {k \in 1..Len(calls) : calls[k].op \in S}

Count(seq, x) == Cardinality({k \in 1..Len(seq) : seq[k] = x})

B2N(b) == IF b THEN 1 ELSE 0

(* The steps that touch the network or the filesystem *)
NetworkOrFilesystemOps ==
    {"kv::namespace::site", "path.exists", "path.is_dir", "kv::bucket::sync",
     "build_script_and_upload_form", "PUT", "Route::publish", "Subdomain::get", "POST"}

RouteOps == {"Route::new", "Route::publish"}

SubdomainOps == {"Subdomain::get", "POST"}

(* The state right after validate_target_required_fields_present returned: *)
(* the target is still the descriptor.                                     *)
JustValidated ==
    /\ NumCalls = 1
    /\ calls[1].op = "validate_target_required_fields_present"

ValidationFailed == outcome = "err" /\ error.kind = "MissingFields"

Reported == IF ValidationFailed THEN error.missing_fields ELSE <<>>

Absent(o) == o = None \/ o = Some("")

BindingsOf(t) == IF t.kv_namespaces = None THEN <<>> ELSE t.kv_namespaces[1]

OtherwiseComplete(t) ==
    /\ t.account_id # ""
    /\ t.name # ""
    /\ \A k \in 1..Len(BindingsOf(t)) :
          BindingsOf(t)[k].binding # "" /\ BindingsOf(t)[k].id # ""

-----------------------------------------------------------------------------
(* C1: validation is the first step of every run; no network or filesystem *)
(* step happens unless validation has succeeded before it; when validation *)
(* fails, publish returns the missing-fields error and the run contains no *)
(* other step.                                                             *)
C1_ValidationGate ==
    /\ NumCalls >= 1 => calls[1].op = "validate_target_required_fields_present"
    /\ \A k \in Ops(NetworkOrFilesystemOps) : k > 1 /\ calls[1].ok
    /\ (NumCalls >= 1 /\ ~calls[1].ok) =>
          /\ NumCalls = 1
          /\ pc = "done"
          /\ ValidationFailed
          /\ error.missing_fields # <<>>
          /\ messages = <<>>

C1_Witness ==
    /\ NumCalls = 1
    /\ ~calls[1].ok
    /\ pc = "done"
    /\ ValidationFailed

(* C2: the reported list holds exactly one entry per violated check, and   *)
(* validation fails exactly when some check is violated.                   *)
C2_OneEntryPerViolation ==
    JustValidated =>
      /\ Count(Reported, "account_id") = B2N(target.account_id = "")
      /\ Count(Reported, "name") = B2N(target.name = "")
      /\ Count(Reported, "kv-namespace binding") =
            Cardinality({k \in 1..Len(BindingsOf(target)) : BindingsOf(target)[k].binding = ""})
      /\ Count(Reported, "kv-namespace id") =
            Cardinality({k \in 1..Len(BindingsOf(target)) : BindingsOf(target)[k].id = ""})
      /\ Count(Reported, "zone_id") = B2N(~target.workers_dev /\ Absent(target.zone_id))
      /\ Count(Reported, "route") = B2N(~target.workers_dev /\ Absent(target.route))
      /\ \A k \in 1..Len(Reported) :
            Reported[k] \in {"account_id", "name", "kv-namespace binding",
                             "kv-namespace id", "zone_id", "route"}
      /\ ValidationFailed <=> Reported # <<>>
      /\ outcome = "err" <=> ValidationFailed
      /\ calls[1].ok <=> ~ValidationFailed

C2_Witness ==
    /\ JustValidated
    /\ ValidationFailed
    /\ Count(Reported, "kv-namespace id") = 2
    /\ Count(Reported, "kv-namespace binding") = 1
    /\ Count(Reported, "account_id") = 1
    /\ Count(Reported, "route") = 1
    /\ Count(Reported, "zone_id") = 0

(* C3: the message of the validation error says "field ... is" for one     *)
(* violation and "fields ... are" for two or more, and is never emitted    *)
(* with the empty pluralization.                                           *)
C3_Pluralization ==
    ValidationFailed =>
      /\ Len(error.missing_fields) >= 1
      /\ Len(error.missing_fields) = 1 =>
            error.pluralization = "field" /\ error.is_are = "is"
      /\ Len(error.missing_fields) >= 2 =>
            error.pluralization = "fields" /\ error.is_are = "are"
      /\ error.pluralization # "" /\ error.is_are # ""

C3_Witness ==
    /\ ValidationFailed
    /\ Len(error.missing_fields) = 2
    /\ error.pluralization = "fields"
    /\ error.is_are = "are"

(* C4: a route-mode target without zone_id and route, otherwise complete,  *)
(* fails with exactly <<"zone_id", "route">> for "a route"; the            *)
(* destination is "a route" exactly in route mode and "your subdomain"     *)
(* exactly in subdomain mode.                                              *)
C4_RouteModeMissing ==
    /\ (JustValidated /\ ~target.workers_dev /\ Absent(target.zone_id)
          /\ Absent(target.route) /\ OtherwiseComplete(target)) =>
          /\ ValidationFailed
          /\ error.missing_fields = <<"zone_id", "route">>
          /\ error.destination = "a route"
    /\ ValidationFailed =>
          /\ error.destination = "a route" <=> ~target.workers_dev
          /\ error.destination = "your subdomain" <=> target.workers_dev

C4_Witness ==
    /\ JustValidated
    /\ ~target.workers_dev
    /\ target.zone_id = None
    /\ target.route = Some("")
    /\ OtherwiseComplete(target)
    /\ Len(BindingsOf(target)) = 2
    /\ error.missing_fields = <<"zone_id", "route">>

(* C5: a complete subdomain-mode target passes validation whatever its     *)
(* zone_id and route; zone_id and route are never reported in subdomain    *)
(* mode.                                                                   *)
C5_SubdomainModeIgnoresRoute ==
    /\ (JustValidated /\ target.workers_dev /\ OtherwiseComplete(target)) =>
          /\ calls[1].ok
          /\ outcome = "running"
          /\ pc = "validate_worker_name"
    /\ (ValidationFailed /\ target.workers_dev) =>
          /\ Count(error.missing_fields, "zone_id") = 0
          /\ Count(error.missing_fields, "route") = 0

C5_Witness ==
    /\ JustValidated
    /\ target.workers_dev
    /\ OtherwiseComplete(target)
    /\ target.zone_id = Some("")
    /\ target.route = None
    /\ outcome = "running"

-----------------------------------------------------------------------------
(* The stage of the pipeline a step belongs to *)
StageOf(op) ==
    CASE op \in {"validate_target_required_fields_present", "validate_worker_name"} -> 1
      [] op = "kv::namespace::site" -> 2
      [] op \in {"bucket.is_empty", "path.exists", "path.is_dir", "kv::bucket::sync"} -> 3
      [] op \in {"build_script_and_upload_form", "PUT"} -> 4
      [] op \in RouteOps \cup SubdomainOps -> 5
      [] op = "message::success" -> 6

StageOps(n) == {k \in 1..NumCalls : StageOf(calls[k].op) = n}

BucketBindings(t) ==
    {k \in 1..Len(BindingsOf(t)) : BindingsOf(t)[k].bucket # None}

(* The response to request k carried a status that is not 2xx *)
NonSuccess(k) == calls[k].status # 0 /\ calls[k].status \notin 200..299

Success(k) == calls[k].status \in 200..299

(* C6: the steps of a run are in stage order validate, bind (only with a   *)
(* site), sync, upload, expose, report; a step is taken only when every    *)
(* earlier step succeeded and every earlier stage is complete; a failed    *)
(* step is the last of the run and publish returns an error.               *)
C6_SequentialFailFast ==
    /\ NumCalls >= 1 => calls[1].op = "validate_target_required_fields_present"
    /\ \A k \in 1..(NumCalls - 1) :
          /\ StageOf(calls[k].op) <= StageOf(calls[k + 1].op)
          /\ calls[k].ok
    /\ \A k \in 1..NumCalls :
          ~calls[k].ok => k = NumCalls /\ outcome = "err" /\ pc = "done"
    /\ outcome = "err" => NumCalls >= 1 /\ ~calls[NumCalls].ok
    /\ outcome = "ok" => calls[NumCalls].op = "message::success" /\ pc = "done"
    /\ StageOps(2) # {} => IsSome(target.site) /\ Cardinality(StageOps(2)) = 1
    /\ (IsSome(target.site) /\ StageOps(3) \cup StageOps(4) # {}) => StageOps(2) # {}
    /\ StageOps(2) \cup StageOps(3) \cup StageOps(4) # {} =>
          Cardinality(StageOps(1)) = 2
    /\ StageOps(4) # {} =>
          Cardinality(Ops({"kv::bucket::sync"})) = Cardinality(BucketBindings(target))
    /\ Ops({"PUT"}) # {} => Cardinality(Ops({"build_script_and_upload_form"})) = 1
    /\ StageOps(5) # {} => Cardinality(Ops({"PUT"})) = 1
    /\ StageOps(6) # {} =>
          /\ Ops({"Route::publish", "POST"}) # {}
          /\ Cardinality(StageOps(6)) = 1

C6_Witness ==
    /\ outcome = "ok"
    /\ IsSome(target.site)
    /\ Cardinality(Ops({"kv::bucket::sync"})) = 3
    /\ Ops({"Route::publish"}) # {}

C8_ExposureExclusive ==
    /\ Ops(RouteOps) # {} => ~target.workers_dev
    /\ Ops(SubdomainOps) # {} => target.workers_dev
    /\ ~(Ops(RouteOps) # {} /\ Ops(SubdomainOps) # {})
    /\ \A k \in Ops(RouteOps \cup SubdomainOps) :
          \E j \in Ops({"PUT"}) : j < k /\ Success(j)
    /\ \A op \in RouteOps \cup SubdomainOps : Cardinality(Ops({op})) <= 1
    /\ pc \in {"route_new", "route_publish"} => ~target.workers_dev
    /\ pc \in {"publish_to_subdomain", "subdomain_post"} => target.workers_dev

C8_Witness ==
    /\ ~target.workers_dev
    /\ Ops({"Route::publish"}) # {}
    /\ Ops(SubdomainOps) = {}
    /\ pc = "report"

(* C9: the enable POST directly follows a successful subdomain lookup; a   *)
(* failed lookup ends the run without any POST; the pattern exists only    *)
(* after a 2xx answer to the POST; a non-2xx answer is fatal and leaves no *)
(* pattern.                                                                *)
C9_SubdomainOrder ==
    /\ \A k \in Ops({"POST"}) :
          /\ k > 1
          /\ calls[k - 1].op = "Subdomain::get"
          /\ calls[k - 1].ok
    /\ \A k \in Ops({"Subdomain::get"}) :
          ~calls[k].ok =>
            /\ k = NumCalls
            /\ outcome = "err"
            /\ pc = "done"
            /\ Ops({"POST"}) = {}
            /\ pattern = None
    /\ (target.workers_dev /\ pattern # None) =>
          \E k \in Ops({"POST"}) : Success(k)
    /\ \A k \in Ops({"POST"}) :
          NonSuccess(k) =>
            /\ k = NumCalls
            /\ outcome = "err"
            /\ error.kind = "Status"
            /\ error.status = calls[k].status
            /\ pattern = None
            /\ messages = <<>>

C9_Witness ==
    /\ NumCalls >= 1
    /\ calls[NumCalls].op = "Subdomain::get"
    /\ ~calls[NumCalls].ok
    /\ outcome = "err"
    /\ Ops({"POST"}) = {}

(* The name returned by the subdomain lookup of the run *)
LookedUp == calls[CHOOSE k \in Ops({"Subdomain::get"}) : TRUE].b

(* C10: a successful run in subdomain mode reports exactly                 *)
(* https://<name>.<looked-up subdomain>.workers.dev                        *)
C10_SubdomainPattern ==
    (outcome = "ok" /\ target.workers_dev) =>
      /\ Ops({"Subdomain::get"}) # {}
      /\ pattern = Some("https://" \o target.name \o "." \o LookedUp \o ".workers.dev")
      /\ messages = <<"Successfully published your script to https://"
                        \o target.name \o "." \o LookedUp \o ".workers.dev">>
      /\ (target.name = "S" /\ LookedUp = "foo") =>
            pattern = Some("https://S.foo.workers.dev")
      /\ (target.name = "S" /\ LookedUp = "bar") =>
            pattern = Some("https://S.bar.workers.dev")

C10_Witness ==
    /\ outcome = "ok"
    /\ target.workers_dev
    /\ target.account_id = "A"
    /\ target.name = "S"
    /\ Ops({"Subdomain::get"}) # {}
    /\ LookedUp = "foo"
    /\ pattern = Some("https://S.foo.workers.dev")

-----------------------------------------------------------------------------
(* The last step taken *)
LastCall == calls[NumCalls]

(* The namespace id returned by the provisioning call of the run *)
SiteId == calls[CHOOSE k \in Ops({"kv::namespace::site"}) : TRUE].body

(* C11: in route mode, once the upload succeeded and the route is built,   *)
(* the route is registered exactly once, for the target's zone and route   *)
(* pattern, and a successful run reports exactly the target's route        *)
(* pattern.                                                                *)
C11_RoutePattern ==
    /\ Cardinality(Ops({"Route::publish"})) <= 1
    /\ \A k \in Ops({"Route::publish"}) :
          /\ target.route # None
          /\ calls[k].b = target.route[1]
          /\ target.zone_id # None
          /\ calls[k].a = target.zone_id[1]
          /\ calls[k - 1].op = "Route::new" /\ calls[k - 1].ok
    /\ (~target.workers_dev /\ pc \in {"report", "done"} /\ outcome # "err") =>
          /\ Cardinality(Ops({"Route::publish"})) = 1
          /\ target.route # None
          /\ pattern = Some(target.route[1])
    /\ (~target.workers_dev /\ outcome = "ok") =>
          /\ messages = <<"Successfully published your script to " \o target.route[1]>>
          /\ target.route = Some("example.com/*") =>
                pattern = Some("example.com/*")

C11_Witness ==
    /\ outcome = "ok"
    /\ ~target.workers_dev
    /\ target.account_id = "A"
    /\ target.name = "S"
    /\ target.zone_id = Some("Z")
    /\ target.route = Some("example.com/*")
    /\ Cardinality(Ops({"Route::publish"})) = 1
    /\ pattern = Some("example.com/*")

(* C12: a successful bind_static_site_contents appends to the binding list *)
(* exactly one entry: "__STATIC_CONTENT", the id the provisioning call     *)
(* returned, the bucket of the site config; a failed one leaves the target *)
(* as it was.                                                              *)
C12_BindAppendsOne ==
    [][pc = "bind_static_site_contents" =>
         /\ calls'[Len(calls')].op = "kv::namespace::site"
         /\ IF calls'[Len(calls')].ok
            THEN /\ target'.kv_namespaces # None
                 /\ BindingsOf(target') =
                       BindingsOf(target) \o
                         << [binding |-> "__STATIC_CONTENT",
                             id |-> calls'[Len(calls')].body,
                             bucket |-> Some(target.site[1].bucket)] >>
                 /\ [target' EXCEPT !.kv_namespaces = target.kv_namespaces] = target
            ELSE target' = target /\ outcome' = "err"]_vars

C12_Witness ==
    /\ Ops({"kv::namespace::site"}) # {}
    /\ LastCall.op = "kv::namespace::site"
    /\ LastCall.ok
    /\ SiteId = "site-ns"
    /\ Len(BindingsOf(target)) = 3
    /\ BindingsOf(target)[3] =
          [binding |-> "__STATIC_CONTENT", id |-> "site-ns", bucket |-> Some("public")]

-----------------------------------------------------------------------------
(* The bucket path of the binding upload_buckets is at *)
CurrentBucket == kv_namespaces(target)[i].bucket[1]

BucketErrors == {"BucketNotSpecified", "BucketDoesNotExist", "BucketNotADirectory"}

(* C13: a binding whose bucket path is empty stops upload_buckets with the *)
(* bucket-directory error at the emptiness check: no filesystem check and  *)
(* no sync is made for it, no upload PUT is ever issued, and publish       *)
(* cannot get past such a binding.                                         *)
C13_EmptyBucketPath ==
    /\ \A k \in Ops({"bucket.is_empty"}) :
          calls[k].b = "" =>
            /\ k = NumCalls
            /\ pc = "done"
            /\ outcome = "err"
            /\ error.kind = "BucketNotSpecified"
            /\ CurrentBucket = ""
            /\ Ops({"PUT"}) = {}
    /\ \A k \in Ops({"path.exists", "path.is_dir", "kv::bucket::sync"}) :
          calls[k].b # ""
    /\ StageOps(4) # {} =>
          \A k \in BucketBindings(target) : BindingsOf(target)[k].bucket # Some("")
    /\ (pc = "upload_buckets" /\ CurrentBucket = "") =>
          /\ Ops({"PUT"}) = {}
          /\ \A k \in Ops({"kv::bucket::sync"}) : calls[k].ok

C13_Witness ==
    /\ NumCalls >= 1
    /\ LastCall.op = "bucket.is_empty"
    /\ LastCall.b = ""
    /\ error.kind = "BucketNotSpecified"
    /\ Ops({"kv::bucket::sync"}) # {}
    /\ Ops({"PUT"}) = {}

(* C14: for a binding with a bucket the path is tested for emptiness, then *)
(* for existence, then for being a directory; the first test that fails    *)
(* ends the run with its own error; the sync is called only after all      *)
(* three passed.                                                           *)
C14_BucketChecksInOrder ==
    /\ \A k \in Ops({"bucket.is_empty"}) : calls[k].ok <=> calls[k].b # ""
    /\ \A k \in Ops({"path.exists"}) :
          /\ calls[k - 1].op = "bucket.is_empty"
          /\ calls[k - 1].ok
          /\ calls[k - 1].b = calls[k].b
          /\ calls[k].ok <=> PathKind(calls[k].b) # "absent"
    /\ \A k \in Ops({"path.is_dir"}) :
          /\ calls[k - 1].op = "path.exists"
          /\ calls[k - 1].ok
          /\ calls[k - 1].b = calls[k].b
          /\ calls[k].ok <=> PathKind(calls[k].b) = "dir"
    /\ \A k \in Ops({"kv::bucket::sync"}) :
          /\ calls[k - 1].op = "path.is_dir"
          /\ calls[k - 1].ok
          /\ calls[k - 1].b = calls[k].b
          /\ calls[k].b # ""
          /\ PathKind(calls[k].b) = "dir"
    /\ \A k \in Ops({"bucket.is_empty", "path.exists", "path.is_dir"}) :
          ~calls[k].ok =>
            /\ k = NumCalls
            /\ outcome = "err"
            /\ calls[k].op = "bucket.is_empty" => error.kind = "BucketNotSpecified"
            /\ calls[k].op = "path.exists" =>
                  error.kind = "BucketDoesNotExist" /\ error.path = calls[k].b
            /\ calls[k].op = "path.is_dir" =>
                  error.kind = "BucketNotADirectory" /\ error.path = calls[k].b
    /\ (outcome = "err" /\ error.kind \in BucketErrors) =>
          /\ error.kind = "BucketNotSpecified" <=> CurrentBucket = ""
          /\ error.kind = "BucketDoesNotExist" <=>
                (CurrentBucket # "" /\ PathKind(CurrentBucket) = "absent")
          /\ error.kind = "BucketNotADirectory" <=>
                (CurrentBucket # "" /\ PathKind(CurrentBucket) = "file")
          /\ LastCall.op \in {"bucket.is_empty", "path.exists", "path.is_dir"}
          /\ ~LastCall.ok

C14_Witness ==
    /\ NumCalls >= 3
    /\ LastCall.op = "path.is_dir"
    /\ LastCall.b = "file.txt"
    /\ ~LastCall.ok
    /\ error.kind = "BucketNotADirectory"
    /\ error.path = "file.txt"

-----------------------------------------------------------------------------
(* Step k of the exposure resolution failed *)
ExposureFailed(k) ==
    IF calls[k].op = "POST" THEN calls[k].status \notin 200..299 ELSE ~calls[k].ok

(* C15: when a step of the exposure resolution fails after a successful    *)
(* upload, the run ends there with an error: no success message, no        *)
(* further call of any kind, and the successful PUT and every bucket sync  *)
(* made before stay as they were made.                                     *)
C15_NoRollback ==
    \A k \in Ops({"Route::new", "Route::publish", "Subdomain::get", "POST"}) :
        ExposureFailed(k) =>
          /\ k = NumCalls
          /\ pc = "done"
          /\ outcome = "err"
          /\ messages = <<>>
          /\ Ops({"message::success"}) = {}
          /\ pattern = None
          /\ \E j \in Ops({"PUT"}) : j < k /\ Success(j)
          /\ form # None
          /\ \A j \in Ops({"kv::bucket::sync"}) : j < k /\ calls[j].ok
          /\ Cardinality(Ops({"kv::bucket::sync"})) = Cardinality(BucketBindings(target))

C15_Witness ==
    /\ NumCalls >= 1
    /\ LastCall.op = "POST"
    /\ LastCall.status = 404
    /\ outcome = "err"
    /\ Cardinality(Ops({"kv::bucket::sync"})) = 2
    /\ \E j \in Ops({"PUT"}) : Success(j)

(* C16: for a target without a site config the provisioning collaborator   *)
(* is never called, bind_static_site_contents is never entered and no step *)
(* of publish changes the target.                                          *)
C16_NoSiteNoProvisioning ==
    /\ [](IsNone(target.site) =>
            /\ Ops({"kv::namespace::site"}) = {}
            /\ pc # "bind_static_site_contents")
    /\ [][IsNone(target.site) => target' = target]_vars
    /\ [](IsNone(descriptor.site) => target = descriptor)

C16_Witness ==
    /\ outcome = "ok"
    /\ IsNone(target.site)
    /\ Len(BindingsOf(target)) = 2
    /\ Cardinality(Ops({"kv::bucket::sync"})) = 2
    /\ Ops({"kv::namespace::site"}) = {}

-----------------------------------------------------------------------------
(* The bulk-write calls of the run, in order, and the bindings of the      *)
(* target that declare a bucket, in order                                  *)
IsSync(c) == c.op = "kv::bucket::sync"

SyncCalls == SelectSeq(calls, IsSync)

HasBucket(kv) == kv.bucket # None

WithBucket(t) == SelectSeq(BindingsOf(t), HasBucket)

(* C17: the bulk-write calls are, in order, the bindings with a bucket,    *)
(* each with its own namespace id and path; only the last call can have    *)
(* failed, and then the run is over; when upload_buckets stops at a        *)
(* binding, exactly the bindings with a bucket before it have been synced; *)
(* when it returns, all of them have.                                      *)
C17_SyncSequence ==
    /\ Len(SyncCalls) <= Len(WithBucket(target))
    /\ \A j \in 1..Len(SyncCalls) :
          /\ SyncCalls[j].a = WithBucket(target)[j].id
          /\ SyncCalls[j].b = WithBucket(target)[j].bucket[1]
          /\ j < Len(SyncCalls) => SyncCalls[j].ok
    /\ \A k \in Ops({"kv::bucket::sync"}) :
          ~calls[k].ok =>
            k = NumCalls /\ outcome = "err" /\ pc = "done" /\ error.kind = "BucketSync"
    /\ StageOps(4) # {} =>
          /\ Len(SyncCalls) = Len(WithBucket(target))
          /\ \A j \in 1..Len(SyncCalls) : SyncCalls[j].ok
    /\ (outcome = "err" /\ error.kind \in BucketErrors) =>
          /\ Len(SyncCalls) < Len(WithBucket(target))
          /\ \A j \in 1..Len(SyncCalls) : SyncCalls[j].ok
          /\ WithBucket(target)[Len(SyncCalls) + 1] = kv_namespaces(target)[i]
          /\ Len(SyncCalls) =
                Cardinality({k \in BucketBindings(target) : k < i})
    /\ (outcome = "err" /\ error.kind = "BucketSync") =>
          /\ WithBucket(target)[Len(SyncCalls)] = kv_namespaces(target)[i]
          /\ Len(SyncCalls) =
                Cardinality({k \in BucketBindings(target) : k <= i})

C17_Witness ==
    /\ Len(WithBucket(target)) = 3
    /\ Len(SyncCalls) = 2
    /\ SyncCalls[1].ok
    /\ ~SyncCalls[2].ok
    /\ SyncCalls[1].a = "ns1"
    /\ WithBucket(target)[3].id = "site-ns"
    /\ outcome = "err"

(* The metadata a form lists for a sequence of bindings *)
MetadataOf(kvs) ==
    [j \in 1..Len(kvs) |-> [name |-> kvs[j].binding, namespace_id |-> kvs[j].id]]

(* C18: for a target with a site config, the form that is uploaded lists   *)
(* the bindings of the descriptor followed by "__STATIC_CONTENT" with the   *)
(* provisioned id, and the target does not change after provisioning.      *)
C18_FormAfterProvisioning ==
    /\ [](\A k \in Ops({"PUT"}) :
            IsSome(descriptor.site) =>
              /\ form # None
              /\ form[1].bindings =
                    MetadataOf(BindingsOf(descriptor))
                      \o << [name |-> "__STATIC_CONTENT", namespace_id |-> SiteId] >>
              /\ form[1].bindings = MetadataOf(BindingsOf(target)))
    /\ [][pc # "bind_static_site_contents" => target' = target]_vars
    /\ [](Ops({"kv::namespace::site"}) = {} => target = descriptor)

C18_Witness ==
    /\ IsSome(descriptor.site)
    /\ NumCalls >= 1
    /\ LastCall.op = "PUT"
    /\ Len(BindingsOf(descriptor)) = 2
    /\ Len(form[1].bindings) = 3
    /\ form[1].bindings[3] = [name |-> "__STATIC_CONTENT", namespace_id |-> "site-ns"]

-----------------------------------------------------------------------------
(* C19: once validation has succeeded, every binding of the target has a   *)
(* non-empty binding name and a non-empty namespace id, the binding added  *)
(* by bind_static_site_contents included, whatever id the provisioning     *)
(* call returned.                                                          *)
C19_BindingsNonEmptyOnceValidated ==
    (NumCalls >= 1 /\ calls[1].op = "validate_target_required_fields_present"
       /\ calls[1].ok) =>
      \A k \in 1..Len(BindingsOf(target)) :
          /\ BindingsOf(target)[k].binding # ""
          /\ BindingsOf(target)[k].id # ""

(* C20: route construction and registration are reached only in route     *)
(* mode with a present, non-empty zone_id and route, which are those of    *)
(* the descriptor and the ones handed to the route calls.                  *)
C20_RouteFieldsPresent ==
    /\ target.zone_id = descriptor.zone_id
    /\ target.route = descriptor.route
    /\ target.workers_dev = descriptor.workers_dev
    /\ (Ops(RouteOps) # {} \/ pc \in {"route_new", "route_publish"}) =>
          /\ ~target.workers_dev
          /\ ~Absent(target.zone_id)
          /\ ~Absent(target.route)
    /\ \A k \in Ops(RouteOps) :
          /\ calls[k].a # ""
          /\ calls[k].b # ""
          /\ calls[k].a = target.zone_id[1]
          /\ calls[k].b = target.route[1]

C20_Witness ==
    /\ NumCalls >= 1
    /\ LastCall.op = "Route::new"
    /\ LastCall.ok
    /\ LastCall.a = "Z"
    /\ LastCall.b = "example.com/*"
    /\ pc = "route_publish"

====
